---- MODULE Spec2Model ----
(***************************************************************************)
(* A model of the brainfuck interpreter of src/src/lib.rs: the generic     *)
(* Tape<T> (module bf_tape) and the execution engine (module brainfuck).   *)
(* A Tape is the record [data, ptr]; data is the Vec as a sequence, so the *)
(* element at Rust index i is data[i + 1].  Symbols are one-character      *)
(* strings, bytes are 0..255.                                              *)
(***************************************************************************)
EXTENDS Integers, Sequences, FiniteSets, TLC

\* the arguments of one execution: the text of the file load_program read (empty
\* when the program tape was built without it), the program text handed to
\* from_iter and the bytes waiting on the input stream when run_program starts
VARIABLES file, source, input
\* the state of run_program: the two tapes, the bracket stack, the unread rest of
\* the input stream, the bytes written so far, and how far run_program got
VARIABLES program, memory, bracket_stack, stdin, stdout, status
\* history variables, read only by the properties: the conventional interpreter
\* run in step with run_program (ref), the instruction dispatched last with the
\* memory pointer and cell it found (prev), and the `[-]` loop being executed
\* with the cell value and stack at its entry and the decrements since (loop)
VARIABLES ref, prev, loop
\* a Tape<u8> driven directly through its methods (TapeSpec): the tape, whether
\* the last seek returned Ok, and two history variables: the last value set at
\* each position set so far (written) and the number of calls made (ops)
VARIABLES free_tape, seek_ok, written, ops

tape_vars == <<free_tape, seek_ok, written, ops>>

run_vars == <<file, source, input, program, memory, bracket_stack, stdin, stdout, status,
              ref, prev, loop>>

vars == <<run_vars, tape_vars>>

(***************************************************************************)
(* Program constants                                                       *)
(***************************************************************************)
\* allocate_for_ptr resizes to ptr_pos + 1000
K == 1000
\* number of values of a u8
ByteRange == 256
\* char::default(), the end-of-tape sentinel
NUL == "NUL"
\* u8::default()
ZeroByte == 0
\* the characters load_program keeps
Alphabet == {">", "<", "+", "-", ".", ",", "[", "]"}
\* a character outside the alphabet (the `_` arm of run_program)
Other == "x"
\* the characters of the model for which char::is_whitespace holds
Whitespace == {" "}

(***************************************************************************)
(* Bounds of the model                                                     *)
(***************************************************************************)
\* every program over Alphabet \cup {Other} of at most this length is run
MaxLen == 3
\* every program over BracketAlphabet of at most this length is run
MaxBrLen == 5
\* `>` is not taken beyond this memory position
MaxMemPtr == 4
\* `.` is not taken once this many bytes have been written
MaxOut == 3
\* a Tape is driven through at most this many calls
MaxTapeOps == 4
\* every file text over FileChars of at most this length is loaded
MaxText == 3

(***************************************************************************)
(* bf_tape::Tape<T>.  The operators that may grow the tape take T's        *)
(* default value d as a parameter.                                         *)
(***************************************************************************)
\* Vec::resize(new_len, value)
resize(data, new_len, value) ==
    IF new_len <= Len(data)
    THEN SubSeq(data, 1, new_len)
    ELSE data \o [i \in 1..(new_len - Len(data)) |-> value]

\* allocate_for_ptr that allocates a fresh store instead of extending the old one
allocate_for_ptr_fresh(tape, ptr_pos, d) ==
    IF Len(tape.data) < ptr_pos + 1
    THEN [tape EXCEPT !.data = [i \in 1..(ptr_pos + K) |-> d]]
    ELSE tape

\* allocate_for_ptr with the test off by one: `len < ptr_pos`
allocate_for_ptr_late(tape, ptr_pos, d) ==
    IF Len(tape.data) < ptr_pos
    THEN [tape EXCEPT !.data = resize(tape.data, ptr_pos + K, d)]
    ELSE tape

allocate_for_ptr(tape, ptr_pos, d) ==
    IF Len(tape.data) < ptr_pos + 1
    THEN [tape EXCEPT !.data = resize(tape.data, ptr_pos + K, d)]
    ELSE tape

get(tape) == tape.data[tape.ptr + 1]

new(d) == allocate_for_ptr([data |-> <<>>, ptr |-> 0], 0, d)

pos(tape) == tape.ptr

\* seek that stops at position 0 instead of failing
seek_clamped(tape, offset, d) ==
    LET new_ptr_pos == IF tape.ptr + offset < 0 THEN 0 ELSE tape.ptr + offset IN
    [ok |-> TRUE,
     tape |-> [allocate_for_ptr(tape, new_ptr_pos, d) EXCEPT !.ptr = new_ptr_pos]]

\* seek that rewinds the tape when it fails
seek_rewinding(tape, offset, d) ==
    LET new_ptr_pos == tape.ptr + offset IN
    IF new_ptr_pos < 0
    THEN [ok |-> FALSE, tape |-> [tape EXCEPT !.ptr = 0]]
    ELSE [ok |-> TRUE,
          tape |-> [allocate_for_ptr(tape, new_ptr_pos, d) EXCEPT !.ptr = new_ptr_pos]]

\* seek that moves the pointer without allocating for it
seek_unallocated(tape, offset, d) ==
    LET new_ptr_pos == tape.ptr + offset IN
    IF new_ptr_pos < 0
    THEN [ok |-> FALSE, tape |-> tape]
    ELSE [ok |-> TRUE, tape |-> [tape EXCEPT !.ptr = new_ptr_pos]]

\* Result<(), &str> and the tape after the call.  The positions of the model stay
\* far below 2^31, so the casts between usize and i32 change no value.
seek(tape, offset, d) ==
    LET new_ptr_pos == tape.ptr + offset IN
    IF new_ptr_pos < 0
    THEN [ok |-> FALSE, tape |-> tape]
    ELSE [ok |-> TRUE,
          tape |-> [allocate_for_ptr(tape, new_ptr_pos, d) EXCEPT !.ptr = new_ptr_pos]]

\* the element returned and the tape after the call; seek(1) cannot fail
next(tape, d) == [elem |-> get(tape), tape |-> seek(tape, 1, d).tape]

set(tape, elem) == [tape EXCEPT !.data[tape.ptr + 1] = elem]

zero(tape) == [tape EXCEPT !.ptr = 0]

\* the `for i in iter` loop of from_iter over iter[lo..hi], in order.  The range
\* is split in halves, and the tape after the first half is computed before the
\* second half starts (its ptr is read), so the evaluation nests only
\* logarithmically deep.
RECURSIVE from_iter_loop(_, _, _, _, _)
from_iter_loop(tape, iter, lo, hi, d) ==
    IF lo > hi
    THEN tape
    ELSE IF lo = hi
    THEN seek(set(tape, iter[lo]), 1, d).tape
    ELSE LET mid == (lo + hi) \div 2
             first_half == from_iter_loop(tape, iter, lo, mid, d)
         IN  IF first_half.ptr >= 0
             THEN from_iter_loop(first_half, iter, mid + 1, hi, d)
             ELSE first_half

\* from_iter without the final rewind
from_iter_unrewound(iter, d) == from_iter_loop(new(d), iter, 1, Len(iter), d)

from_iter(iter, d) == zero(from_iter_loop(new(d), iter, 1, Len(iter), d))

(***************************************************************************)
(* brainfuck: the helpers of run_program                                   *)
(***************************************************************************)
\* saturating instead of wrapping addition
saturating_add(byte, n) == IF byte + n >= ByteRange THEN ByteRange - 1 ELSE byte + n

wrapping_add(byte, n) == (byte + n) % ByteRange

wrapping_add_signed(byte, n) == (byte + n + ByteRange) % ByteRange

\* get_byte_from_stdin with the end of the stream read as 255
get_byte_from_stdin_eof255(stream) ==
    IF stream # <<>>
    THEN [byte |-> Head(stream), rest |-> Tail(stream)]
    ELSE [byte |-> ByteRange - 1, rest |-> stream]

\* the byte read and the rest of the stream; end of stream reads as 0.  The
\* streams of the model do not fail: the Err results of the two I/O helpers, on
\* which run_program panics, are left out.
get_byte_from_stdin(stream) ==
    IF stream # <<>>
    THEN [byte |-> Head(stream), rest |-> Tail(stream)]
    ELSE [byte |-> ZeroByte, rest |-> stream]

print_byte_to_stdout(out, byte) == Append(out, byte)

\* the forward scan without the push at a nested `[`: it stops at the first `]`
RECURSIVE left_bracket_scan_flat(_, _, _)
left_bracket_scan_flat(prog, stack, orig_stack_len) ==
    LET n == next(prog, NUL) IN
    CASE n.elem = "]" ->
            IF stack = <<>>
            THEN [result |-> "panic_empty_stack", program |-> n.tape, bracket_stack |-> stack]
            ELSE LET popped == SubSeq(stack, 1, Len(stack) - 1) IN
                 IF Len(popped) = orig_stack_len
                 THEN [result |-> "ok", program |-> n.tape, bracket_stack |-> popped]
                 ELSE left_bracket_scan_flat(n.tape, popped, orig_stack_len)
      [] n.elem = NUL ->
            [result |-> "err_no_matching_close", program |-> n.tape, bracket_stack |-> stack]
      [] OTHER -> left_bracket_scan_flat(n.tape, stack, orig_stack_len)

\* the forward scan that takes the end of the tape for the matching `]`
RECURSIVE left_bracket_scan_to_end(_, _, _)
left_bracket_scan_to_end(prog, stack, orig_stack_len) ==
    LET n == next(prog, NUL) IN
    CASE n.elem = "[" ->
            left_bracket_scan_to_end(n.tape, Append(stack, pos(n.tape)), orig_stack_len)
      [] n.elem = "]" ->
            IF stack = <<>>
            THEN [result |-> "panic_empty_stack", program |-> n.tape, bracket_stack |-> stack]
            ELSE LET popped == SubSeq(stack, 1, Len(stack) - 1) IN
                 IF Len(popped) = orig_stack_len
                 THEN [result |-> "ok", program |-> n.tape, bracket_stack |-> popped]
                 ELSE left_bracket_scan_to_end(n.tape, popped, orig_stack_len)
      [] n.elem = NUL ->
            [result |-> "ok", program |-> n.tape, bracket_stack |-> stack]
      [] OTHER -> left_bracket_scan_to_end(n.tape, stack, orig_stack_len)

\* the forward scan of left_bracket (the `loop` of lines 158-175)
RECURSIVE left_bracket_scan(_, _, _)
left_bracket_scan(prog, stack, orig_stack_len) ==
    LET n == next(prog, NUL) IN
    CASE n.elem = "[" ->
            left_bracket_scan(n.tape, Append(stack, pos(n.tape)), orig_stack_len)
      [] n.elem = "]" ->
            IF stack = <<>>
            THEN [result |-> "panic_empty_stack", program |-> n.tape, bracket_stack |-> stack]
            ELSE LET popped == SubSeq(stack, 1, Len(stack) - 1) IN
                 IF Len(popped) = orig_stack_len
                 THEN [result |-> "ok", program |-> n.tape, bracket_stack |-> popped]
                 ELSE left_bracket_scan(n.tape, popped, orig_stack_len)
      [] n.elem = NUL ->
            [result |-> "err_no_matching_close", program |-> n.tape, bracket_stack |-> stack]
      [] OTHER -> left_bracket_scan(n.tape, stack, orig_stack_len)

\* left_bracket whose scan stops one level too deep
left_bracket_inner(prog, mem, stack) ==
    LET orig_stack_len == Len(stack)
        pushed == Append(stack, pos(prog))
    IN  IF get(mem) # 0
        THEN [result |-> "ok", program |-> prog, bracket_stack |-> pushed]
        ELSE left_bracket_scan(prog, pushed, orig_stack_len + 1)

\* left_bracket that pushes the position of the `[` itself
left_bracket_at_open(prog, mem, stack) ==
    LET orig_stack_len == Len(stack)
        pushed == Append(stack, pos(prog) - 1)
    IN  IF get(mem) # 0
        THEN [result |-> "ok", program |-> prog, bracket_stack |-> pushed]
        ELSE left_bracket_scan(prog, pushed, orig_stack_len)

\* left_bracket that scans without having pushed the position of its `[`
left_bracket_unpushed(prog, mem, stack) ==
    LET orig_stack_len == Len(stack)
        pushed == Append(stack, pos(prog))
    IN  IF get(mem) # 0
        THEN [result |-> "ok", program |-> prog, bracket_stack |-> pushed]
        ELSE left_bracket_scan(prog, stack, orig_stack_len)

left_bracket(prog, mem, stack) ==
    LET orig_stack_len == Len(stack)
        pushed == Append(stack, pos(prog))
    IN  IF get(mem) # 0
        THEN [result |-> "ok", program |-> prog, bracket_stack |-> pushed]
        ELSE left_bracket_scan(prog, pushed, orig_stack_len)

\* right_bracket without the test for an empty stack
right_bracket_unchecked(prog, mem, stack) ==
    IF Len(stack) = 0
    THEN [result |-> "ok", program |-> prog, bracket_stack |-> stack]
    ELSE IF get(mem) = 0
    THEN [result |-> "ok", program |-> prog,
          bracket_stack |-> SubSeq(stack, 1, Len(stack) - 1)]
    ELSE LET s == seek(prog, stack[Len(stack)] - pos(prog), NUL) IN
         [result |-> IF s.ok THEN "ok" ELSE "panic_program_seek",
          program |-> s.tape, bracket_stack |-> stack]

\* right_bracket that never jumps back
right_bracket_no_jump(prog, mem, stack) ==
    IF Len(stack) = 0
    THEN [result |-> "err_unmatched_close", program |-> prog, bracket_stack |-> stack]
    ELSE [result |-> "ok", program |-> prog,
          bracket_stack |-> SubSeq(stack, 1, Len(stack) - 1)]

\* right_bracket that pops the stack also when it jumps back
right_bracket_pop_always(prog, mem, stack) ==
    IF Len(stack) = 0
    THEN [result |-> "err_unmatched_close", program |-> prog, bracket_stack |-> stack]
    ELSE IF get(mem) = 0
    THEN [result |-> "ok", program |-> prog,
          bracket_stack |-> SubSeq(stack, 1, Len(stack) - 1)]
    ELSE LET s == seek(prog, stack[Len(stack)] - pos(prog), NUL) IN
         [result |-> IF s.ok THEN "ok" ELSE "panic_program_seek",
          program |-> s.tape, bracket_stack |-> SubSeq(stack, 1, Len(stack) - 1)]

\* right_bracket that leaves the loop without popping its entry
right_bracket_no_pop(prog, mem, stack) ==
    IF Len(stack) = 0
    THEN [result |-> "err_unmatched_close", program |-> prog, bracket_stack |-> stack]
    ELSE IF get(mem) = 0
    THEN [result |-> "ok", program |-> prog, bracket_stack |-> stack]
    ELSE LET s == seek(prog, stack[Len(stack)] - pos(prog), NUL) IN
         [result |-> IF s.ok THEN "ok" ELSE "panic_program_seek",
          program |-> s.tape, bracket_stack |-> stack]

\* right_bracket that jumps back to the `[` itself
right_bracket_to_open(prog, mem, stack) ==
    IF Len(stack) = 0
    THEN [result |-> "err_unmatched_close", program |-> prog, bracket_stack |-> stack]
    ELSE IF get(mem) = 0
    THEN [result |-> "ok", program |-> prog,
          bracket_stack |-> SubSeq(stack, 1, Len(stack) - 1)]
    ELSE LET s == seek(prog, stack[Len(stack)] - 1 - pos(prog), NUL) IN
         [result |-> IF s.ok THEN "ok" ELSE "panic_program_seek",
          program |-> s.tape, bracket_stack |-> stack]

right_bracket(prog, mem, stack) ==
    IF Len(stack) = 0
    THEN [result |-> "err_unmatched_close", program |-> prog, bracket_stack |-> stack]
    ELSE IF get(mem) = 0
    THEN [result |-> "ok", program |-> prog,
          bracket_stack |-> SubSeq(stack, 1, Len(stack) - 1)]
    ELSE LET s == seek(prog, stack[Len(stack)] - pos(prog), NUL) IN
         [result |-> IF s.ok THEN "ok" ELSE "panic_program_seek",
          program |-> s.tape, bracket_stack |-> stack]

is_whitespace(c) == c \in Whitespace

\* input.retain(|c| !c.is_whitespace()): the characters kept, in their order
strip_whitespace(string) == SelectSeq(string, LAMBDA c : ~is_whitespace(c))

\* input.retain(|c| "<>+-.,[]".contains(c))
strip_non_bf(string) == SelectSeq(string, LAMBDA c : c \in Alphabet)

\* load_program that strips the whitespace only
load_program_unfiltered(text) ==
    from_iter(strip_whitespace(text), NUL)

\* load_program on a file that was read as `text`: the two retain passes, then
\* collect() through from_iter
load_program(text) ==
    from_iter(strip_non_bf(strip_whitespace(text)), NUL)

\* how run_program goes on after a bracket helper returned `result`
after_bracket(result) ==
    CASE result = "ok" -> "running"
      [] result = "err_no_matching_close" -> "panic_no_matching_close"
      [] result = "err_unmatched_close" -> "panic_unmatched_close"
      [] OTHER -> result

(***************************************************************************)
(* The runs: a program text and the bytes waiting on the input stream      *)
(***************************************************************************)
SeqsUpTo(S, n) == UNION {[1..k -> S] : k \in 0..n}

Repeat(sym, n) == [i \in 1..n |-> sym]

BracketAlphabet == {"[", "]", "+", ">"}

SmallInputs == {<<>>, <<2, 0>>}

AllBytes == 0..(ByteRange - 1)

\* the bytes fed to the programs that loop once per unit of the byte read
SampleBytes == {0, 1, 2, 127, 128, 254, 255}

Multiply == <<"+", "+", "+", "+", "+", "+", "[", "-", ">", "+", "+", "+", "+", "<", "]">>

EchoByte == <<",", ".">>

PlusMinus == <<",", "+", "-">>

ClearCell == <<",", "[", "-", "]">>

\* an endless outer loop around `[-]`
ClearCellNested == <<"+", "[", ",", "[", "-", "]", "+", "]">>

\* 2 * 2 by two nested loops, the result in cell 2
NestedMultiply ==
    <<"+", "+", "[", ">", "+", "+", "[", ">", "+", "<", "-", "]", "<", "-", "]">>

\* the runs whose programs are at most MaxLen, MaxBrLen or a few dozen symbols long
ShortRuns ==
    (SeqsUpTo(Alphabet \cup {Other}, MaxLen) \X SmallInputs)
    \cup (SeqsUpTo(BracketAlphabet, MaxBrLen) \X {<<>>})
    \cup ({Multiply, NestedMultiply} \X {<<>>})
    \cup ({EchoByte, PlusMinus} \X {<<b>> : b \in AllBytes})
    \cup ({ClearCell, ClearCellNested} \X {<<b>> : b \in SampleBytes})

\* programs one symbol shorter than, as long as and one symbol longer than the
\* first allocation of the program tape
LongRuns == {Repeat("+", n) : n \in {K - 1, K, K + 1}} \X {<<>>}

Runs == ShortRuns \cup LongRuns

\* the runs the termination properties are checked on: the programs the spec
\* names, and every program of one symbol so that each instruction occurs
TerminationRuns ==
    ({Multiply, NestedMultiply} \X {<<>>})
    \cup ({EchoByte, PlusMinus, ClearCell, ClearCellNested} \X {<<b>> : b \in SampleBytes})
    \cup (SeqsUpTo(Alphabet \cup {Other}, 1) \X {<<>>})

(***************************************************************************)
(* The conventional interpreter the engine is compared with: brackets are  *)
(* matched by nesting depth through a jump table (RefMatchClose,           *)
(* RefMatchOpen), memory is a row of zero bytes, pc and mptr count from 0. *)
(* It is defined for programs with balanced brackets only.                 *)
(***************************************************************************)
Count(s, sym, k) == Cardinality({i \in 1..k : s[i] = sym})

Depth(s, k) == Count(s, "[", k) - Count(s, "]", k)

\* the depth never goes below 0 (it can only at a `]`) and ends at 0
Balanced(s) ==
    /\ \A k \in 1..Len(s) : s[k] = "]" => Depth(s, k) >= 0
    /\ Depth(s, Len(s)) = 0

\* the index of the `]` closing the `[` at index i, and of the `[` opened at
\* the `]` at index j (indices into the text, from 1)
RefMatchClose(s, i) ==
    CHOOSE j \in (i + 1)..Len(s) :
        /\ s[j] = "]"
        /\ Depth(s, j) = Depth(s, i) - 1
        /\ \A k \in i..(j - 1) : Depth(s, k) >= Depth(s, i)

RefMatchOpen(s, j) ==
    CHOOSE i \in 1..(j - 1) :
        /\ s[i] = "["
        /\ Depth(s, i) = Depth(s, j) + 1
        /\ \A k \in i..(j - 1) : Depth(s, k) >= Depth(s, i)

\* for a program whose brackets are not balanced the interpreter is undefined
RefInit(s, stream) ==
    [pc |-> 0, mptr |-> 0, mem |-> [i \in 1..(MaxMemPtr + 1) |-> 0],
     inp |-> stream, out |-> <<>>,
     outcome |-> IF Balanced(s) THEN "running" ELSE "undefined"]

RefStep(r, s) ==
    LET c == IF r.pc < Len(s) THEN s[r.pc + 1] ELSE NUL
        cell == r.mem[r.mptr + 1]
        fwd == [r EXCEPT !.pc = r.pc + 1]
    IN  CASE r.outcome # "running" -> r
          [] c = ">" -> [fwd EXCEPT !.mptr = r.mptr + 1]
          [] c = "<" -> IF r.mptr = 0
                        THEN [fwd EXCEPT !.outcome = "bounds"]
                        ELSE [fwd EXCEPT !.mptr = r.mptr - 1]
          [] c = "+" -> [fwd EXCEPT !.mem[r.mptr + 1] = IF cell = 255 THEN 0 ELSE cell + 1]
          [] c = "-" -> [fwd EXCEPT !.mem[r.mptr + 1] = IF cell = 0 THEN 255 ELSE cell - 1]
          [] c = "." -> [fwd EXCEPT !.out = Append(r.out, cell)]
          [] c = "," -> IF r.inp = <<>>
                        THEN [fwd EXCEPT !.mem[r.mptr + 1] = 0]
                        ELSE [fwd EXCEPT !.mem[r.mptr + 1] = Head(r.inp), !.inp = Tail(r.inp)]
          [] c = "[" -> IF cell = 0
                        THEN [r EXCEPT !.pc = RefMatchClose(s, r.pc + 1)]
                        ELSE fwd
          [] c = "]" -> IF cell # 0
                        THEN [r EXCEPT !.pc = RefMatchOpen(s, r.pc + 1)]
                        ELSE fwd
          [] c = NUL -> [fwd EXCEPT !.outcome = "ok"]
          [] OTHER -> [fwd EXCEPT !.outcome = "invalid"]

(***************************************************************************)
(* The history variables.  History is conjoined to every action; it reads  *)
(* the state before the step only.                                         *)
(***************************************************************************)
NoPrev == [sym |-> NUL, mptr |-> 0, cell |-> 0]

NoLoop == [active |-> FALSE, v |-> 0, decs |-> 0, stack |-> <<>>]

\* the `[` about to be dispatched opens the loop `[-]`
AtClearLoop ==
    /\ get(program) = "["
    /\ program.ptr + 3 <= Len(source)
    /\ source[program.ptr + 2] = "-"
    /\ source[program.ptr + 3] = "]"

History ==
    /\ ref' = RefStep(ref, source)
    /\ prev' = [sym |-> get(program), mptr |-> memory.ptr, cell |-> get(memory)]
    /\ loop' = CASE AtClearLoop /\ get(memory) # 0 ->
                        [active |-> TRUE, v |-> get(memory), decs |-> 0,
                         stack |-> bracket_stack]
                 [] loop.active /\ get(program) = "-" ->
                        [loop EXCEPT !.decs = loop.decs + 1]
                 [] loop.active /\ get(program) = "]" /\ get(memory) = 0 -> NoLoop
                 [] OTHER -> loop

(***************************************************************************)
(* run_program: one action per arm of the dispatch `match`; each action is *)
(* one iteration of the loop, program.next() included.                     *)
(***************************************************************************)
InitRun(run) ==
    /\ file = <<>>
    /\ source = run[1]
    /\ program = from_iter(run[1], NUL)
    /\ input = run[2]
    /\ stdin = run[2]
    /\ memory = new(ZeroByte)
    /\ bracket_stack = <<>>
    /\ stdout = <<>>
    /\ status = "running"
    /\ ref = RefInit(run[1], run[2])
    /\ prev = NoPrev
    /\ loop = NoLoop
    /\ free_tape = new(ZeroByte)
    /\ seek_ok = TRUE
    /\ written = <<>>
    /\ ops = 0

Init == \E run \in Runs : InitRun(run)

Dispatching(sym) == status = "running" /\ get(program) = sym

SeekRight ==
    /\ Dispatching(">")
    /\ memory.ptr < MaxMemPtr
    /\ program' = next(program, NUL).tape
    /\ memory' = seek(memory, 1, ZeroByte).tape
    /\ UNCHANGED <<tape_vars, file, source, input, bracket_stack, stdin, stdout, status>>
    /\ History

SeekLeft ==
    /\ Dispatching("<")
    /\ program' = next(program, NUL).tape
    /\ LET s == seek(memory, -1, ZeroByte) IN
        /\ memory' = s.tape
        /\ status' = IF s.ok THEN "running" ELSE "panic_seek"
    /\ UNCHANGED <<tape_vars, file, source, input, bracket_stack, stdin, stdout>>
    /\ History

Increment ==
    /\ Dispatching("+")
    /\ program' = next(program, NUL).tape
    /\ memory' = set(memory, wrapping_add(get(memory), 1))
    /\ UNCHANGED <<tape_vars, file, source, input, bracket_stack, stdin, stdout, status>>
    /\ History

Decrement ==
    /\ Dispatching("-")
    /\ program' = next(program, NUL).tape
    /\ memory' = set(memory, wrapping_add_signed(get(memory), -1))
    /\ UNCHANGED <<tape_vars, file, source, input, bracket_stack, stdin, stdout, status>>
    /\ History

Output ==
    /\ Dispatching(".")
    /\ Len(stdout) < MaxOut
    /\ program' = next(program, NUL).tape
    /\ stdout' = print_byte_to_stdout(stdout, get(memory))
    /\ UNCHANGED <<tape_vars, file, source, input, memory, bracket_stack, stdin, status>>
    /\ History

Input ==
    /\ Dispatching(",")
    /\ program' = next(program, NUL).tape
    /\ LET r == get_byte_from_stdin(stdin) IN
        /\ memory' = set(memory, r.byte)
        /\ stdin' = r.rest
    /\ UNCHANGED <<tape_vars, file, source, input, bracket_stack, stdout, status>>
    /\ History

LeftBracket ==
    /\ Dispatching("[")
    /\ LET r == left_bracket(next(program, NUL).tape, memory, bracket_stack) IN
        /\ program' = r.program
        /\ bracket_stack' = r.bracket_stack
        /\ status' = after_bracket(r.result)
    /\ UNCHANGED <<tape_vars, file, source, input, memory, stdin, stdout>>
    /\ History

RightBracket ==
    /\ Dispatching("]")
    /\ LET r == right_bracket(next(program, NUL).tape, memory, bracket_stack) IN
        /\ program' = r.program
        /\ bracket_stack' = r.bracket_stack
        /\ status' = after_bracket(r.result)
    /\ UNCHANGED <<tape_vars, file, source, input, memory, stdin, stdout>>
    /\ History

EndOfTape ==
    /\ Dispatching(NUL)
    /\ program' = next(program, NUL).tape
    /\ status' = "ok"
    /\ UNCHANGED <<tape_vars, file, source, input, memory, bracket_stack, stdin, stdout>>
    /\ History

InvalidSymbol ==
    /\ status = "running"
    /\ get(program) \notin Alphabet \cup {NUL}
    /\ program' = next(program, NUL).tape
    /\ status' = "err_invalid_symbol"
    /\ UNCHANGED <<tape_vars, file, source, input, memory, bracket_stack, stdin, stdout>>
    /\ History

Next ==
    \/ SeekRight
    \/ SeekLeft
    \/ Increment
    \/ Decrement
    \/ Output
    \/ Input
    \/ LeftBracket
    \/ RightBracket
    \/ EndOfTape
    \/ InvalidSymbol

Spec == Init /\ [][Next]_vars

(***************************************************************************)
(* A Tape<u8> on its own: built by from_iter (by new, for the empty        *)
(* sequence), then driven through set, seek, next and zero.  written[p + 1] *)
(* is <<v>> when v is the value set last at position p, and NotSet when    *)
(* no set() reached p; positions from Len(written) on were never set.      *)
(***************************************************************************)
NotSet == <<>>

TapeValues == {1, 2}

TapeOffsets == {-K, -1, 1, K}

TapeSeeds == {<<>>, <<1>>, <<2, 1>>}

\* the record of a set(elem) at position p
Record(w, p, elem) ==
    [i \in 1..(IF p + 1 > Len(w) THEN p + 1 ELSE Len(w)) |->
        IF i = p + 1 THEN <<elem>> ELSE IF i <= Len(w) THEN w[i] ELSE NotSet]

TapeInit ==
    /\ \E seed \in TapeSeeds :
        /\ free_tape = from_iter(seed, ZeroByte)
        /\ written = [i \in 1..Len(seed) |-> <<seed[i]>>]
    /\ seek_ok = TRUE
    /\ ops = 0
    /\ file = <<>>
    /\ source = <<>>
    /\ input = <<>>
    /\ program = from_iter(<<>>, NUL)
    /\ memory = new(ZeroByte)
    /\ bracket_stack = <<>>
    /\ stdin = <<>>
    /\ stdout = <<>>
    /\ status = "idle"
    /\ ref = RefInit(<<>>, <<>>)
    /\ prev = NoPrev
    /\ loop = NoLoop

TapeSet(elem) ==
    /\ ops < MaxTapeOps
    /\ free_tape' = set(free_tape, elem)
    /\ written' = Record(written, free_tape.ptr, elem)
    /\ ops' = ops + 1
    /\ UNCHANGED <<seek_ok, run_vars>>

TapeSeek(offset) ==
    /\ ops < MaxTapeOps
    /\ LET s == seek(free_tape, offset, ZeroByte) IN
        /\ free_tape' = s.tape
        /\ seek_ok' = s.ok
    /\ ops' = ops + 1
    /\ UNCHANGED <<written, run_vars>>

TapeNextElem ==
    /\ ops < MaxTapeOps
    /\ free_tape' = next(free_tape, ZeroByte).tape
    /\ ops' = ops + 1
    /\ UNCHANGED <<seek_ok, written, run_vars>>

TapeZero ==
    /\ ops < MaxTapeOps
    /\ free_tape' = zero(free_tape)
    /\ ops' = ops + 1
    /\ UNCHANGED <<seek_ok, written, run_vars>>

TapeNext ==
    \/ \E elem \in TapeValues : TapeSet(elem)
    \/ \E offset \in TapeOffsets : TapeSeek(offset)
    \/ TapeNextElem
    \/ TapeZero

TapeSpec == TapeInit /\ [][TapeNext]_vars

\* run_program keeps executing while it can: nothing but the input stream can
\* make it wait, and the stream modelled here always answers (a byte or its end)
FairSpec == (\E run \in TerminationRuns : InitRun(run)) /\ [][Next]_vars /\ WF_vars(Next)

(***************************************************************************)
(* main: the program tape is loaded from a file by load_program and then   *)
(* run.  A loaded tape holds no symbol of the `_` arm, so InvalidSymbol is *)
(* no step of these behaviours.                                            *)
(***************************************************************************)
\* the characters a file is made of here: the instructions, a whitespace
\* character, a character that is neither, and the character '\0'
FileChars == Alphabet \cup Whitespace \cup {Other, NUL}

\* the input stream of the loaded programs
LoadInputs == {<<2, 0>>}

\* the symbols a tape holds before its first sentinel
Symbols(tape) ==
    LET end == CHOOSE n \in 1..Len(tape.data) :
                   /\ tape.data[n] = NUL
                   /\ \A k \in 1..(n - 1) : tape.data[k] # NUL
    IN  SubSeq(tape.data, 1, end - 1)

LoadInit ==
    \E text \in SeqsUpTo(FileChars, MaxText), stream \in LoadInputs :
        /\ file = text
        /\ program = load_program(text)
        /\ source = Symbols(program)
        /\ input = stream
        /\ stdin = stream
        /\ memory = new(ZeroByte)
        /\ bracket_stack = <<>>
        /\ stdout = <<>>
        /\ status = "running"
        /\ ref = RefInit(source, stream)
        /\ prev = NoPrev
        /\ loop = NoLoop
        /\ free_tape = new(ZeroByte)
        /\ seek_ok = TRUE
        /\ written = <<>>
        /\ ops = 0

LoadNext ==
    \/ SeekRight
    \/ SeekLeft
    \/ Increment
    \/ Decrement
    \/ Output
    \/ Input
    \/ LeftBracket
    \/ RightBracket
    \/ EndOfTape

LoadSpec == LoadInit /\ [][LoadNext]_vars

(***************************************************************************)
(* Properties                                                              *)
(***************************************************************************)
\* the cell at the memory pointer
Cell == get(memory)

\* a step leaves the memory pointer, the length of memory and every cell but the
\* one at the pointer as they were
OnlyCellChanges ==
    /\ memory'.ptr = memory.ptr
    /\ Len(memory'.data) = Len(memory.data)
    /\ \A i \in 1..Len(memory.data) : i # memory.ptr + 1 => memory'.data[i] = memory.data[i]

\* the outcome of run_program in the terms of the conventional interpreter
Outcome ==
    CASE status = "running" -> "running"
      [] status = "ok" -> "ok"
      [] status = "panic_seek" -> "bounds"
      [] status = "err_invalid_symbol" -> "invalid"
      [] OTHER -> "bracket_failure"

\* C1: on a program with balanced brackets run_program and the conventional
\* interpreter agree, at every dispatch step, on the program pointer, the memory
\* pointer, every memory cell, the input left and the output emitted, and on the
\* outcome.
C1_Refinement ==
    /\ ref.outcome = "undefined" => ~Balanced(source)
    /\ ref.outcome # "undefined" =>
        /\ Outcome = ref.outcome
        /\ program.ptr = ref.pc
        /\ memory.ptr = ref.mptr
        /\ \A i \in 1..Len(memory.data) :
               memory.data[i] = IF i <= MaxMemPtr + 1 THEN ref.mem[i] ELSE 0
        /\ stdin = ref.inp
        /\ stdout = ref.out

\* the inner loop of +[,[-]+] has jumped back while the outer loop is open
C1_Witness ==
    /\ ref.outcome = "running"
    /\ status = "running"
    /\ Len(bracket_stack) = 2
    /\ prev.sym = "]"
    /\ program.ptr = bracket_stack[2]
    /\ Cell # 0

\* some `[` of s has no matching `]`
UnmatchedOpen(s) ==
    \E i \in 1..Len(s) :
        /\ s[i] = "["
        /\ \A j \in i..Len(s) : Depth(s, j) >= Depth(s, i)

\* C2: a program with a `[` that has no matching `]` never terminates
\* successfully, whatever the current cell holds when that `[` is dispatched.
C2_UnmatchedOpenNeverOk == UnmatchedOpen(source) => status # "ok"

\* no bracket among the first p symbols of the program
NoBracketBefore(p) == \A i \in 1..p : source[i] \notin {"[", "]"}

\* C3: a `]` dispatched on an empty bracket stack fails with the unmatched-`]`
\* condition, the program pointer does not move backwards and memory is
\* unchanged; a `]` that is the first bracket of the program always fails so.
C3_UnmatchedClose ==
    [][ /\ (Dispatching("]") /\ bracket_stack = <<>>) =>
              /\ status' = "panic_unmatched_close"
              /\ program'.ptr >= program.ptr
              /\ memory' = memory
              /\ bracket_stack' = <<>>
        /\ (Dispatching("]") /\ NoBracketBefore(program.ptr)) =>
              status' = "panic_unmatched_close"
      ]_vars

\* the second `]` of `[]]` has failed
C3_Witness ==
    /\ status = "panic_unmatched_close"
    /\ prev.sym = "]"
    /\ bracket_stack = <<>>
    /\ ~NoBracketBefore(program.ptr - 1)

MultiplyDone ==
    /\ status = "ok"
    /\ memory.ptr = 0
    /\ memory.data[1] = 0
    /\ memory.data[2] = 24

\* C4: ++++++[->++++<] run from all-zero memory terminates successfully with the
\* memory pointer on cell 0, cell 0 holding 0 and cell 1 holding 24.
C4_Multiply ==
    /\ [](source = Multiply /\ status # "running" => MultiplyDone)
    /\ (source = Multiply) ~> MultiplyDone

C4_Witness == source = Multiply /\ MultiplyDone /\ prev.sym = NUL /\ bracket_stack = <<>>

\* C5: the dispatch loop reads the sentinel exactly at position len(program)
\* (positions below never hold it, position len(program) always does), and
\* run_program ends successfully exactly in the step that dispatches it.
C5_Sentinel ==
    /\ [] /\ Len(program.data) > Len(source)
          /\ \A i \in 1..Len(source) : program.data[i] = source[i] /\ program.data[i] # NUL
          /\ program.data[Len(source) + 1] = NUL
          /\ status = "running" =>
                /\ program.ptr <= Len(source)
                /\ get(program) = NUL <=> program.ptr = Len(source)
    /\ [][status' = "ok" <=> Dispatching(NUL)]_vars

\* a program as long as the first allocation has ended successfully
C5_Witness == Len(source) = K /\ status = "ok" /\ program.ptr = K + 1

\* C6: `[-]` entered on a cell holding v # 0 leaves the loop after exactly v
\* decrements with the cell at 0 and the bracket stack as before the `[`;
\* entered on a cell holding 0 it is skipped in the one step, memory untouched,
\* and execution goes on just past the `]`.
C6_ClearLoop ==
    /\ [](loop.active =>
            /\ status = "running"
            /\ Cell + loop.decs = loop.v
            /\ bracket_stack # <<>>
            /\ SubSeq(bracket_stack, 1, Len(bracket_stack) - 1) = loop.stack)
    /\ [][ /\ (loop.active /\ ~loop'.active) =>
                 /\ loop.decs = loop.v
                 /\ memory' = memory
                 /\ Cell = 0
                 /\ bracket_stack' = loop.stack
                 /\ status' = "running"
                 /\ program'.ptr = program.ptr + 1
           /\ (status = "running" /\ AtClearLoop /\ Cell = 0) =>
                 /\ memory' = memory
                 /\ bracket_stack' = bracket_stack
                 /\ program'.ptr = program.ptr + 3
                 /\ status' = "running"
                 /\ ~loop'.active
         ]_vars
    /\ (loop.active ~> ~loop.active)

\* inside +[,[-]+] on input 255, the last of 255 decrements has been made
C6_Witness ==
    /\ loop.active
    /\ loop.v = 255
    /\ loop.decs = 255
    /\ loop.stack # <<>>

\* C7: `,` stores the next unread byte of the input in the cell at the pointer
\* and consumes it, or stores 0 when the input is exhausted; `.` appends the
\* cell at the pointer to the output and leaves memory alone; nothing else
\* writes output; so `,.` on the input byte b ends having emitted exactly b.
C7_InputOutput ==
    /\ [][ /\ Dispatching(",") =>
                 /\ IF stdin # <<>>
                    THEN get(memory') = Head(stdin) /\ stdin' = Tail(stdin)
                    ELSE get(memory') = 0 /\ stdin' = stdin
                 /\ OnlyCellChanges
                 /\ stdout' = stdout
           /\ Dispatching(".") =>
                 /\ stdout' = Append(stdout, Cell)
                 /\ memory' = memory
                 /\ stdin' = stdin
           /\ stdout' # stdout => Dispatching(".")
         ]_vars
    /\ [](source = <<",", ".">> /\ Len(input) = 1 /\ status = "ok" => stdout = input)

C7_Witness ==
    /\ source = <<",", ".">>
    /\ input = <<65>>
    /\ status = "ok"
    /\ stdout = <<65>>

\* C8: `+` adds one to the cell at the pointer with 255 going to 0, `-`
\* subtracts one with 0 going to 255, neither touches another cell or the
\* pointer, and a `-` dispatched right after a `+` restores the cell.
C8_PlusMinus ==
    [][ /\ Dispatching("+") =>
              /\ get(memory') = IF Cell = 255 THEN 0 ELSE Cell + 1
              /\ OnlyCellChanges
        /\ Dispatching("-") =>
              /\ get(memory') = IF Cell = 0 THEN 255 ELSE Cell - 1
              /\ OnlyCellChanges
        /\ (Dispatching("-") /\ prev.sym = "+") =>
              /\ get(memory') = prev.cell
              /\ memory'.ptr = prev.mptr
      ]_vars

\* ,+- on the input byte 255: `+` wrapped to 0 and `-` brought 255 back
C8_Witness ==
    /\ source = <<",", "+", "-">>
    /\ input = <<255>>
    /\ prev = [sym |-> "-", mptr |-> 0, cell |-> 0]
    /\ Cell = 255

\* C9: `<` dispatched with the memory pointer at 0 fails with the bounds
\* condition, leaving memory and its pointer as they were, and nothing is
\* executed after a failure.
C9_SeekBelowZero ==
    [][ /\ (Dispatching("<") /\ memory.ptr = 0) =>
              /\ status' = "panic_seek"
              /\ memory' = memory
        /\ status = "running"
      ]_vars

\* `<` failed with instructions still ahead of the program pointer
C9_Witness ==
    /\ status = "panic_seek"
    /\ prev.sym = "<"
    /\ memory.ptr = 0
    /\ program.ptr < Len(source)

\* the last value set at position p, or the default value
LastSet(p) ==
    IF p < Len(written) /\ written[p + 1] # NotSet THEN written[p + 1][1] ELSE ZeroByte

\* C10: after any sequence of set, seek, next and zero, get() returns the last
\* value set at the current position, or the default value if none was; every
\* position of the backing store holds the last value set there, so growing
\* the store changed none.
C10_GetLastSet ==
    /\ free_tape.ptr < Len(free_tape.data)
    /\ get(free_tape) = LastSet(free_tape.ptr)
    /\ Len(written) <= Len(free_tape.data)
    /\ \A p \in 0..(Len(free_tape.data) - 1) : free_tape.data[p + 1] = LastSet(p)

\* a value set at position 0 is read back after the store grew (a seek by +K and
\* a set there) and the pointer came back by -K
C10_Witness ==
    /\ free_tape.ptr = 0
    /\ Len(free_tape.data) = K + K
    /\ Len(written) = K + 1
    /\ written[1] = <<2>>
    /\ written[K + 1] = <<1>>
    /\ get(free_tape) = 2

\* C11: a seek to a position p >= 0 succeeds and leaves pos() = p; a seek whose
\* target is below 0 fails and leaves pos(), the stored data and its length as
\* they were.
C11_Seek ==
    [][ \A offset \in TapeOffsets :
            TapeSeek(offset) =>
                IF pos(free_tape) + offset >= 0
                THEN /\ seek_ok'
                     /\ pos(free_tape') = pos(free_tape) + offset
                ELSE /\ ~seek_ok'
                     /\ pos(free_tape') = pos(free_tape)
                     /\ free_tape'.data = free_tape.data
                     /\ Len(free_tape'.data) = Len(free_tape.data)
      ]_vars

\* a seek by -K failed at position K - 1, reached by a seek that grew the store
C11_Witness ==
    /\ ~seek_ok
    /\ pos(free_tape) = K - 1
    /\ Len(free_tape.data) = K + K

\* the pointer of the tape addresses a position of its backing store
InStore(tape) == 0 <= tape.ptr /\ tape.ptr < Len(tape.data)

\* C12: after any sequence of new, from_iter, get, set, seek, next and zero the
\* pointer satisfies 0 <= ptr < len(data), so get() and set() address a
\* position of the backing store.
C12_PointerInStore ==
    /\ InStore(free_tape)
    /\ free_tape.ptr + 1 \in DOMAIN free_tape.data
    /\ InStore(program)
    /\ InStore(memory)

\* two seeks by +K, the second to the position just past the end of the store
C12_Witness ==
    /\ ops = 2
    /\ pos(free_tape) = K + K
    /\ Len(free_tape.data) = K + K + K

\* the program tape is as from_iter built it: nothing has been dispatched yet
Constructed == status = "running" /\ prev = NoPrev

\* C13: the tape built from a sequence s has its pointer at 0, holds s[i] at
\* every position i < len(s) and the default value at position len(s), for the
\* empty sequence and for lengths around and equal to the growth batch as well.
C13_FromIter ==
    Constructed =>
        /\ pos(program) = 0
        /\ Len(program.data) > Len(source)
        /\ \A i \in 0..(Len(source) - 1) : program.data[i + 1] = source[i + 1]
        /\ program.data[Len(source) + 1] = NUL
        /\ get(program) = IF source = <<>> THEN NUL ELSE source[1]

\* a tape built from exactly K elements: the last seek(1) of the loop grew the
\* store and position K holds the default value
C13_Witness ==
    /\ Constructed
    /\ Len(source) = K
    /\ Len(program.data) = K + K
    /\ program.data[K] = "+"
    /\ program.data[K + 1] = NUL
    /\ pos(program) = 0

\* C14: the bracket stack is empty when execution starts, and on a program with
\* balanced brackets it is empty when execution has terminated successfully.
C14_StackEmptyAtEnds ==
    /\ Constructed => bracket_stack = <<>>
    /\ (ref.outcome # "undefined" /\ status = "ok") => bracket_stack = <<>>

\* the two nested loops of NestedMultiply have run and the program has ended
C14_Witness ==
    /\ source = NestedMultiply
    /\ status = "ok"
    /\ bracket_stack = <<>>
    /\ memory.data[3] = 4

\* the characters of text that are instructions, in their order
RECURSIVE InstructionsOf(_)
InstructionsOf(text) ==
    IF text = <<>>
    THEN <<>>
    ELSE (IF Head(text) \in Alphabet THEN <<Head(text)>> ELSE <<>>)
         \o InstructionsOf(Tail(text))

\* C15: load_program yields the tape holding exactly the characters of the file
\* that are among <>+-.,[] in their original order, so the loaded program holds
\* no symbol outside the eight instructions and its execution never reaches the
\* invalid-symbol failure.
C15_LoadProgram ==
    /\ Constructed =>
          /\ pos(program) = 0
          /\ SubSeq(program.data, 1, Len(InstructionsOf(file))) = InstructionsOf(file)
          /\ program.data[Len(InstructionsOf(file)) + 1] = NUL
    /\ source = InstructionsOf(file)
    /\ \A i \in 1..Len(source) : program.data[i] \in Alphabet
    /\ ~ENABLED InvalidSymbol
    /\ status # "err_invalid_symbol"

\* the file `+x.` was loaded as `+.` and run to its end
C15_Witness ==
    /\ file = <<"+", Other, ".">>
    /\ source = <<"+", ".">>
    /\ status = "ok"
    /\ stdout = <<1>>

\* the `[` at index i of s has a matching `]`
HasMatchClose(s, i) ==
    \E j \in (i + 1)..Len(s) :
        /\ s[j] = "]"
        /\ Depth(s, j) = Depth(s, i) - 1
        /\ \A k \in i..(j - 1) : Depth(s, k) >= Depth(s, i)

\* C16: a `[` dispatched on a zero cell that has a matching `]` leaves the
\* program pointer just past the `]` matching it by nesting, the bracket stack
\* as it was before the `[`, and memory, the memory pointer, the input left and
\* the output emitted unchanged; execution goes on.
C16_Skip ==
    [][ (Dispatching("[") /\ Cell = 0 /\ HasMatchClose(source, pos(program) + 1)) =>
            /\ pos(program') = RefMatchClose(source, pos(program) + 1)
            /\ source[pos(program')] = "]"
            /\ bracket_stack' = bracket_stack
            /\ memory' = memory
            /\ stdin' = stdin
            /\ stdout' = stdout
            /\ status' = "running"
      ]_vars

\* the outer `[` of `[[]]+` was skipped: the pointer passed the inner `]` and
\* stands on the `+`
C16_Witness ==
    /\ source = <<"[", "[", "]", "]", "+">>
    /\ prev.sym = "["
    /\ prev.cell = 0
    /\ status = "running"
    /\ pos(program) = 4
    /\ get(program) = "+"
    /\ bracket_stack = <<>>

\* C17: a `]` dispatched in a program with balanced brackets on a non-zero cell
\* moves the program pointer just past the matching `[` and leaves the bracket
\* stack unchanged; on a zero cell it pops exactly one entry, the one of the
\* matching `[`, and the program pointer goes just past the `]`.
C17_CloseBracket ==
    [][ (Dispatching("]") /\ ref.outcome # "undefined") =>
            /\ status' = "running"
            /\ memory' = memory
            /\ IF Cell # 0
               THEN /\ pos(program') = RefMatchOpen(source, pos(program) + 1)
                    /\ source[pos(program')] = "["
                    /\ bracket_stack' = bracket_stack
               ELSE /\ Len(bracket_stack) >= 1
                    /\ bracket_stack[Len(bracket_stack)]
                           = RefMatchOpen(source, pos(program) + 1)
                    /\ bracket_stack' = SubSeq(bracket_stack, 1, Len(bracket_stack) - 1)
                    /\ pos(program') = pos(program) + 1
      ]_vars

\* the inner loop of NestedMultiply was left: its entry is popped, the entry of
\* the outer loop remains
C17_Witness ==
    /\ source = NestedMultiply
    /\ prev.sym = "]"
    /\ prev.cell = 0
    /\ status = "running"
    /\ pos(program) = 12
    /\ bracket_stack = <<3>>

\* C18: a `[` dispatched on a zero cell whose scan reaches the sentinel before
\* the stack is back at its depth at entry (the `[` has no matching `]`) fails
\* with the no-matching-`]` condition, and the execution does not end
\* successfully afterwards.
C18_NoMatchingClose ==
    [][ /\ (Dispatching("[") /\ Cell = 0 /\ ~HasMatchClose(source, pos(program) + 1)) =>
              /\ status' = "panic_no_matching_close"
              /\ pos(program') = Len(source) + 1
              /\ memory' = memory
        /\ status = "panic_no_matching_close" => status' = "panic_no_matching_close"
        /\ status' = "panic_no_matching_close" => (Dispatching("[") /\ Cell = 0)
      ]_vars

\* the scan of the first `[` of `[[]` passed the inner pair and reached the
\* sentinel with its own entry still on the stack
C18_Witness ==
    /\ source = <<"[", "[", "]">>
    /\ status = "panic_no_matching_close"
    /\ prev.sym = "["
    /\ prev.cell = 0
    /\ bracket_stack = <<1>>
    /\ pos(program) = 4

\* the `[` just before position e encloses position p: it is not closed before p
Encloses(e, p) ==
    /\ e \in 1..p
    /\ source[e] = "["
    /\ RefMatchClose(source, e) >= p + 1

\* C19: on a program with balanced brackets, whenever an instruction is about
\* to be dispatched the bracket stack is as long as the nesting depth of the
\* program pointer, its entries increase strictly from bottom to top, and each
\* is the position just past a `[` that encloses the program pointer, at most
\* the program pointer.
C19_StackShape ==
    (status = "running" /\ ref.outcome # "undefined") =>
        /\ Len(bracket_stack) = Depth(source, pos(program))
        /\ \A k \in 1..(Len(bracket_stack) - 1) : bracket_stack[k] < bracket_stack[k + 1]
        /\ \A k \in 1..Len(bracket_stack) :
              /\ bracket_stack[k] <= pos(program)
              /\ Encloses(bracket_stack[k], pos(program))

\* inside the inner loop of NestedMultiply: one entry for each of the two loops
C19_Witness ==
    /\ source = NestedMultiply
    /\ status = "running"
    /\ bracket_stack = <<3, 7>>
    /\ pos(program) = 9
    /\ prev.sym = "+"

\* C20: on every program, balanced or not, the pop inside the forward scan of
\* left_bracket never finds the stack empty, the backward seek of right_bracket
\* never targets a position below 0 (its targets are the stack entries), and the
\* seek by +1 of next() never fails.
C20_InternalAssertions ==
    /\ status # "panic_empty_stack"
    /\ status # "panic_program_seek"
    /\ \A k \in 1..Len(bracket_stack) : bracket_stack[k] >= 1
    /\ seek(program, 1, NUL).ok
    /\ seek(memory, 1, ZeroByte).ok

\* `+[+]]`: the loop jumped back 255 times and was left, and the second `]`
\* failed as an unmatched `]`
C20_Witness ==
    /\ source = <<"+", "[", "+", "]", "]">>
    /\ status = "panic_unmatched_close"
    /\ Cell = 0
    /\ pos(program) = 5

====
